---- MODULE Spec2Model ----
(***************************************************************************)
(* Model of plot_confusion_matrix.py: a command-line tool that reads       *)
(* confusion-matrix CSV files and saves heatmap images.                    *)
(*                                                                         *)
(* Strings that the program inspects or rewrites (paths) are sequences of  *)
(* one-character strings, so that str.replace and the rglob suffix match   *)
(* are computed character by character.  CSV cells are atomic strings; a   *)
(* file's content is the list of rows csv.reader yields for it (a blank    *)
(* line yields a row with no cells).  Floats are the integers they denote. *)
(***************************************************************************)
EXTENDS Integers, Sequences, FiniteSets, TLC

VARIABLES argv, fs, pc, csv_files, idx, attempts, saved, stdout, exit_code,
          loaded, raised

vars == <<argv, fs, pc, csv_files, idx, attempts, saved, stdout, exit_code,
          loaded, raised>>

----------------------------------------------------------------------------
(* Bounds *)

MaxRows == 3

MaxCells == 2

MaxFiles == 3

----------------------------------------------------------------------------
(* Strings *)

None == <<"None">>

Csv == <<".", "c", "s", "v">>

Png == <<".", "p", "n", "g">>

Pattern == <<"c", "o", "n", "f", "u", "s", "i", "o", "n", "_",
             "m", "a", "t", "r", "i", "x">> \o Csv

StartsWith(s, pre) ==
    /\ Len(pre) <= Len(s)
    /\ SubSeq(s, 1, Len(pre)) = pre

EndsWith(s, suf) ==
    /\ Len(suf) <= Len(s)
    /\ SubSeq(s, Len(s) - Len(suf) + 1, Len(s)) = suf

RECURSIVE Replace(_, _, _)
Replace(s, old, new) ==
    IF Len(s) < Len(old) THEN s
    ELSE IF StartsWith(s, old)
         THEN new \o Replace(SubSeq(s, Len(old) + 1, Len(s)), old, new)
         ELSE <<s[1]>> \o Replace(Tail(s), old, new)

----------------------------------------------------------------------------
(* The parsing step of plot_confusion_matrix *)

FloatOf ==
    [c \in {"2", "3", "4", "5", "3.0", "1e1"} |->
        CASE c = "2" -> 2
          [] c = "3" -> 3
          [] c = "4" -> 4
          [] c = "5" -> 5
          [] c = "3.0" -> 3
          [] c = "1e1" -> 10]

IsNumeric(c) == c \in DOMAIN FloatOf

SkipFirst(row) == IF Len(row) = 0 THEN <<>> ELSE Tail(row)

FloatRow(row) == [j \in 1..Len(SkipFirst(row)) |-> FloatOf[SkipFirst(row)[j]]]

RowError(row) ==
    IF Len(row) = 0 THEN "IndexError"
    ELSE IF \E j \in 2..Len(row) : ~IsNumeric(row[j]) THEN "ValueError"
    ELSE "none"

FirstBad(data) ==
    IF \E k \in 1..Len(data) : RowError(data[k]) # "none"
    THEN CHOOSE k \in 1..Len(data) :
            /\ RowError(data[k]) # "none"
            /\ \A h \in 1..(k - 1) : RowError(data[h]) = "none"
    ELSE 0

Ragged(matrix) == \E a, b \in 1..Len(matrix) : Len(matrix[a]) # Len(matrix[b])

NoMatrix(status) ==
    [status |-> status, class_labels |-> <<>>, row_labels |-> <<>>, matrix |-> <<>>]

LoadKeepCorner(rows, ragged_raises) ==
    IF Len(rows) = 0 THEN NoMatrix("IndexError")
    ELSE LET data == Tail(rows)
             bad == FirstBad(data)
             matrix == [k \in 1..Len(data) |-> FloatRow(data[k])]
         IN  IF bad # 0 THEN NoMatrix(RowError(data[bad]))
             ELSE IF Ragged(matrix) /\ ragged_raises THEN NoMatrix("ValueError")
             ELSE [status |-> "ok",
                   class_labels |-> rows[1],
                   row_labels |-> [k \in 1..Len(data) |-> data[k][1]],
                   matrix |-> matrix]

Load(rows, ragged_raises) ==
    IF Len(rows) = 0 THEN NoMatrix("IndexError")
    ELSE LET data == Tail(rows)
             bad == FirstBad(data)
             matrix == [k \in 1..Len(data) |-> FloatRow(data[k])]
         IN  IF bad # 0 THEN NoMatrix(RowError(data[bad]))
             ELSE IF Ragged(matrix) /\ ragged_raises THEN NoMatrix("ValueError")
             ELSE [status |-> "ok",
                   class_labels |-> SkipFirst(rows[1]),
                   row_labels |-> [k \in 1..Len(data) |-> data[k][1]],
                   matrix |-> matrix]

----------------------------------------------------------------------------
(* The file system and the command line *)

Script == <<"p", "y">>

Root == <<"r">>

EmptyDir == <<"e">>

SubCsv == Root \o <<"/", "a">> \o Csv

SubPng == Root \o <<"/", "a">> \o Png

Dirs == {Root, EmptyDir, SubCsv, SubPng}

FRoot == Root \o <<"/">> \o Pattern

FSubCsv == SubCsv \o <<"/">> \o Pattern

FSubPng == SubPng \o <<"/">> \o Pattern

FNotes == Root \o <<"/", "n">> \o Csv

FPdf == <<"m", ".", "p", "d", "f">>

FileUniverse == {FRoot, FSubCsv, FSubPng, FNotes, FPdf}

Missing == <<"n", "o">>

OutArg == <<"o">> \o Png

Good == << <<"", "A", "B">>, <<"X", "2", "3">>, <<"Y", "4", "5">> >>

BadCell == << <<"", "A">>, <<"X", "n/a">> >>

NoRows == << >>

HeaderOnly == << <<"", "A", "B">> >>

Short == << <<"", "A", "B">>, <<"X", "1e1">>, <<"Y", "3.0">> >>

Catalog == {Good, BadCell, NoRows}

Examples == Catalog \cup {HeaderOnly, Short}

Cells == {"X", "3.0"}

SeqsUpTo(S, n) == UNION {[1..k -> S] : k \in 0..n}

AllRows == SeqsUpTo(SeqsUpTo(Cells, MaxCells), MaxRows)

isfile(path) == path \in DOMAIN fs

isdir(path) == path \in Dirs

rglob(directory) ==
    {p \in DOMAIN fs : StartsWith(p, directory \o <<"/">>) /\ EndsWith(p, Pattern)}

Orders(S) ==
    {q \in [1..Cardinality(S) -> S] : \A a, b \in 1..Cardinality(S) : q[a] = q[b] => a = b}

----------------------------------------------------------------------------
(* plot_confusion_matrix(csv_file, output_file) *)

Envs == [readable : BOOLEAN, ragged_raises : BOOLEAN, renders : BOOLEAN]

DefaultOutput(csv_file) == Replace(csv_file, Csv, Png)

OutputFileAlwaysDefault(csv_file, output_file) == DefaultOutput(csv_file)

OutputFile(csv_file, output_file) ==
    IF output_file = None THEN DefaultOutput(csv_file) ELSE output_file

plot_confusion_matrix(csv_file, output_file, env) ==
    LET ld == IF env.readable THEN Load(fs[csv_file], env.ragged_raises)
              ELSE NoMatrix("OSError")
    IN  IF ld.status # "ok"
        THEN [loaded |-> ld, raised |-> ld.status, out |-> None]
        ELSE IF ~env.renders
        THEN [loaded |-> ld, raised |-> "OSError", out |-> None]
        ELSE [loaded |-> ld, raised |-> "none",
              out |-> OutputFile(csv_file, output_file)]

SavedBy(csv_file, r) ==
    IF r.raised = "none" THEN <<[src |-> csv_file, dst |-> r.out]>> ELSE <<>>

PrintedBy(r) ==
    IF r.raised = "none" THEN <<[kind |-> "saved", arg |-> r.out]>> ELSE <<>>

----------------------------------------------------------------------------
(* main *)

MainUsage ==
    /\ pc = "main"
    /\ Len(argv) < 2
    /\ stdout' = stdout \o <<[kind |-> "usage", arg |-> None]>>
    /\ exit_code' = <<1>>
    /\ pc' = "exit"
    /\ UNCHANGED <<argv, fs, csv_files, idx, attempts, saved, loaded, raised>>

MainSingleCaught ==
    /\ pc = "main"
    /\ Len(argv) >= 2
    /\ isfile(argv[2])
    /\ \E env \in Envs :
        LET output_file == IF Len(argv) > 2 THEN argv[3] ELSE None
            r == plot_confusion_matrix(argv[2], output_file, env)
        IN  /\ attempts' = Append(attempts, [file |-> argv[2], raised |-> r.raised])
            /\ loaded' = r.loaded
            /\ raised' = r.raised
            /\ saved' = saved \o SavedBy(argv[2], r)
            /\ stdout' = stdout \o PrintedBy(r) \o
                  (IF r.raised = "none" THEN <<>>
                   ELSE <<[kind |-> "error", arg |-> argv[2]]>>)
            /\ pc' = "done"
            /\ exit_code' = <<0>>
    /\ UNCHANGED <<argv, fs, csv_files, idx>>

MainSingle ==
    /\ pc = "main"
    /\ Len(argv) >= 2
    /\ isfile(argv[2])
    /\ \E env \in Envs :
        LET output_file == IF Len(argv) > 2 THEN argv[3] ELSE None
            r == plot_confusion_matrix(argv[2], output_file, env)
        IN  /\ attempts' = Append(attempts, [file |-> argv[2], raised |-> r.raised])
            /\ loaded' = r.loaded
            /\ raised' = r.raised
            /\ saved' = saved \o SavedBy(argv[2], r)
            /\ stdout' = stdout \o PrintedBy(r)
            /\ pc' = IF r.raised = "none" THEN "done" ELSE "crashed"
            /\ exit_code' = IF r.raised = "none" THEN <<0>> ELSE <<1>>
    /\ UNCHANGED <<argv, fs, csv_files, idx>>

MainDirNoEarlyReturn ==
    /\ pc = "main"
    /\ Len(argv) >= 2
    /\ ~isfile(argv[2])
    /\ isdir(argv[2])
    /\ \E found \in Orders(rglob(argv[2])) :
        /\ csv_files' = found
        /\ stdout' = stdout \o <<[kind |-> "found", arg |-> <<Len(found)>>]>>
        /\ pc' = "batch"
        /\ exit_code' = exit_code
    /\ idx' = 1
    /\ UNCHANGED <<argv, fs, attempts, saved, loaded, raised>>

MainDir ==
    /\ pc = "main"
    /\ Len(argv) >= 2
    /\ ~isfile(argv[2])
    /\ isdir(argv[2])
    /\ \E found \in Orders(rglob(argv[2])) :
        /\ csv_files' = found
        /\ IF Len(found) = 0
           THEN /\ stdout' = stdout \o <<[kind |-> "none", arg |-> argv[2]]>>
                /\ pc' = "done"
                /\ exit_code' = <<0>>
           ELSE /\ stdout' = stdout \o <<[kind |-> "found", arg |-> <<Len(found)>>]>>
                /\ pc' = "batch"
                /\ exit_code' = exit_code
    /\ idx' = 1
    /\ UNCHANGED <<argv, fs, attempts, saved, loaded, raised>>

BatchStepNoCatch ==
    /\ pc = "batch"
    /\ idx <= Len(csv_files)
    /\ \E env \in Envs :
        LET csv_file == csv_files[idx]
            r == plot_confusion_matrix(csv_file, None, env)
        IN  /\ attempts' = Append(attempts, [file |-> csv_file, raised |-> r.raised])
            /\ loaded' = r.loaded
            /\ raised' = r.raised
            /\ saved' = saved \o SavedBy(csv_file, r)
            /\ stdout' = stdout \o PrintedBy(r)
            /\ pc' = IF r.raised = "none" THEN pc ELSE "crashed"
            /\ exit_code' = IF r.raised = "none" THEN exit_code ELSE <<1>>
    /\ idx' = idx + 1
    /\ UNCHANGED <<argv, fs, csv_files>>

BatchStep ==
    /\ pc = "batch"
    /\ idx <= Len(csv_files)
    /\ \E env \in Envs :
        LET csv_file == csv_files[idx]
            r == plot_confusion_matrix(csv_file, None, env)
        IN  /\ attempts' = Append(attempts, [file |-> csv_file, raised |-> r.raised])
            /\ loaded' = r.loaded
            /\ raised' = r.raised
            /\ saved' = saved \o SavedBy(csv_file, r)
            /\ stdout' = stdout \o PrintedBy(r) \o
                  (IF r.raised = "none" THEN <<>>
                   ELSE <<[kind |-> "error", arg |-> csv_file]>>)
    /\ idx' = idx + 1
    /\ UNCHANGED <<argv, fs, pc, csv_files, exit_code>>

BatchReturn ==
    /\ pc = "batch"
    /\ idx > Len(csv_files)
    /\ pc' = "done"
    /\ exit_code' = <<0>>
    /\ UNCHANGED <<argv, fs, csv_files, idx, attempts, saved, stdout, loaded, raised>>

MainInvalidFallsThrough ==
    /\ pc = "main"
    /\ Len(argv) >= 2
    /\ ~isfile(argv[2])
    /\ ~isdir(argv[2])
    /\ stdout' = stdout \o <<[kind |-> "invalid", arg |-> argv[2]]>>
    /\ exit_code' = <<0>>
    /\ pc' = "done"
    /\ UNCHANGED <<argv, fs, csv_files, idx, attempts, saved, loaded, raised>>

MainInvalid ==
    /\ pc = "main"
    /\ Len(argv) >= 2
    /\ ~isfile(argv[2])
    /\ ~isdir(argv[2])
    /\ stdout' = stdout \o <<[kind |-> "invalid", arg |-> argv[2]]>>
    /\ exit_code' = <<1>>
    /\ pc' = "exit"
    /\ UNCHANGED <<argv, fs, csv_files, idx, attempts, saved, loaded, raised>>

----------------------------------------------------------------------------
(* Specifications *)

Started ==
    /\ pc = "main"
    /\ csv_files = <<>>
    /\ idx = 1
    /\ attempts = <<>>
    /\ saved = <<>>
    /\ stdout = <<>>
    /\ exit_code = <<>>
    /\ loaded = NoMatrix("none")
    /\ raised = "none"

Argvs ==
    {<<Script>>}
    \cup {<<Script, p>> : p \in {Root, EmptyDir, FRoot, FSubCsv, FPdf, Missing}}
    \cup {<<Script, p, OutArg>> : p \in {Root, FRoot, FPdf, Missing}}

Init ==
    /\ \E S \in SUBSET FileUniverse :
        /\ Cardinality(S) <= MaxFiles
        /\ fs \in [S -> Catalog]
    /\ argv \in Argvs
    /\ Started

Next ==
    \/ MainUsage
    \/ MainSingle
    \/ MainDir
    \/ BatchStep
    \/ BatchReturn
    \/ MainInvalid

Spec == Init /\ [][Next]_vars

InitLoad ==
    /\ \E rows \in AllRows \cup Examples : fs = (FRoot :> rows)
    /\ argv = <<Script, FRoot>>
    /\ Started

NextLoad == MainSingle

SpecLoad == InitLoad /\ [][NextLoad]_vars

----------------------------------------------------------------------------
(* Properties of the parsing step (checked under SpecLoad) *)

Attempted == attempts # <<>>

LastFile == attempts[Len(attempts)].file

LastRows == fs[LastFile]

ParseRan == Attempted /\ loaded.status # "OSError"

NumericText ==
    [c \in {"2", "3", "4", "5", "3.0", "1e1"} |->
        CASE c \in {"3", "3.0"} -> 3
          [] c = "2" -> 2
          [] c = "4" -> 4
          [] c = "5" -> 5
          [] c = "1e1" -> 10]

WellFormed(rows) ==
    /\ Len(rows) >= 2
    /\ Len(rows[1]) >= 1
    /\ \A i \in 1..Len(rows) : Len(rows[i]) = Len(rows[1])
    /\ \A i \in 2..Len(rows) : \A j \in 2..Len(rows[i]) : rows[i][j] \in DOMAIN NumericText

HasNonNumericValue(rows) ==
    \E i \in 2..Len(rows) : \E j \in 2..Len(rows[i]) : rows[i][j] \notin DOMAIN NumericText

(* C1: for a well-formed CSV with R data rows and C value columns the      *)
(* loader yields the header's cells after the first as column labels, the  *)
(* first cell of each data row, in file order, as row labels, and an R x C *)
(* matrix whose entry (i, j) is the number written in cell j+1 of data row *)
(* i.                                                                      *)
C1_WellFormedLoads ==
    (ParseRan /\ WellFormed(LastRows)) =>
        LET rows == LastRows
            R == Len(rows) - 1
            C == Len(rows[1]) - 1
        IN  /\ loaded.status = "ok"
            /\ Len(loaded.class_labels) = C
            /\ Len(loaded.row_labels) = R
            /\ Len(loaded.matrix) = R
            /\ \A j \in 1..C : loaded.class_labels[j] = rows[1][j + 1]
            /\ \A i \in 1..R :
                /\ loaded.row_labels[i] = rows[i + 1][1]
                /\ Len(loaded.matrix[i]) = C
                /\ \A j \in 1..C : loaded.matrix[i][j] = NumericText[rows[i + 1][j + 1]]

C1_Witness ==
    /\ ParseRan
    /\ LastRows = Good
    /\ loaded.class_labels = <<"A", "B">>
    /\ loaded.row_labels = <<"X", "Y">>
    /\ loaded.matrix = << <<2, 3>>, <<4, 5>> >>

(* C2: the parser fails, producing no matrix, whenever a cell outside the  *)
(* first row and the label column is not numeric, and whenever the file    *)
(* has fewer than two rows (empty or header-only).                         *)
C2_FewRowsOrNonNumericFails ==
    (ParseRan /\ (Len(LastRows) < 2 \/ HasNonNumericValue(LastRows))) =>
        loaded.status # "ok"

(* C10: every matrix the loader produces without raising has as many row   *)
(* labels as data rows and as many column labels as values in every data   *)
(* row, whatever the shape of the CSV.                                     *)
C10_LoadedShapeInvariant ==
    (ParseRan /\ loaded.status = "ok") =>
        /\ Len(loaded.row_labels) = Len(loaded.matrix)
        /\ \A i \in 1..Len(loaded.matrix) :
              Len(loaded.matrix[i]) = Len(loaded.class_labels)

----------------------------------------------------------------------------
(* Properties of the command-line tool (checked under Spec) *)

SingleMode == Len(argv) >= 2 /\ isfile(argv[2])

DirMode == Len(argv) >= 2 /\ ~isfile(argv[2]) /\ isdir(argv[2])

DefaultMode == DirMode \/ (SingleMode /\ Len(argv) = 2)

Failed(a) == a.raised # "none"

Succeeded(a) == a.raised = "none"

IsError(m) == m.kind = "error"

IsSaved(m) == m.kind = "saved"

Files(as) == [k \in 1..Len(as) |-> as[k].file]

Sources(ws) == [k \in 1..Len(ws) |-> ws[k].src]

Args(ms) == [k \in 1..Len(ms) |-> ms[k].arg]

LastIndexOf(s, ch) ==
    IF \E i \in 1..Len(s) : s[i] = ch
    THEN CHOOSE i \in 1..Len(s) : s[i] = ch /\ \A h \in (i + 1)..Len(s) : s[h] # ch
    ELSE 0

WithSuffix(p, suffix) ==
    LET name == LastIndexOf(p, "/") + 1
        dot == LastIndexOf(p, ".")
    IN  IF dot > name THEN SubSeq(p, 1, dot - 1) \o suffix ELSE p \o suffix

(* C3: in batch mode every matching file is attempted exactly once, in     *)
(* enumeration order, whatever failed before; an image is produced for     *)
(* exactly the files that did not fail, one error naming the file's path   *)
(* is reported for each file that failed, and the batch finishes normally. *)
C3_BatchIsolatesFailures ==
    (DirMode /\ pc # "main") =>
        /\ pc \in {"batch", "done"}
        /\ Len(csv_files) = Cardinality(rglob(argv[2]))
        /\ {csv_files[k] : k \in 1..Len(csv_files)} = rglob(argv[2])
        /\ Len(attempts) <= Len(csv_files)
        /\ Files(attempts) = SubSeq(csv_files, 1, Len(attempts))
        /\ Sources(saved) = Files(SelectSeq(attempts, Succeeded))
        /\ Args(SelectSeq(stdout, IsError)) = Files(SelectSeq(attempts, Failed))
        /\ Len(SelectSeq(stdout, IsSaved)) = Len(saved)
        /\ pc = "done" =>
            /\ Len(attempts) = Len(csv_files)
            /\ exit_code = <<0>>

C3_Witness ==
    /\ DirMode
    /\ pc = "done"
    /\ Len(csv_files) = 3
    /\ attempts[1].raised = "ValueError"
    /\ fs[attempts[1].file] = BadCell
    /\ Sources(saved) = <<csv_files[2], csv_files[3]>>
    /\ Args(SelectSeq(stdout, IsError)) = <<csv_files[1]>>

(* C4: in single-file mode an error raised by plot_confusion_matrix is not *)
(* caught: the process terminates with a non-zero exit status and no       *)
(* success message has been printed.                                       *)
C4_SingleFileErrorPropagates ==
    (SingleMode /\ Attempted /\ raised # "none") =>
        /\ pc = "crashed"
        /\ exit_code = <<1>>
        /\ SelectSeq(stdout, IsSaved) = <<>>
        /\ stdout = <<>>
        /\ saved = <<>>

C4_Witness ==
    /\ SingleMode
    /\ pc = "crashed"
    /\ raised = "ValueError"
    /\ fs[argv[2]] = BadCell

(* C5: with no output path given the image is written to the input path    *)
(* with only its trailing extension replaced, whatever the path.           *)
C5_DefaultOutputReplacesExtension ==
    DefaultMode =>
        \A k \in 1..Len(saved) : saved[k].dst = WithSuffix(saved[k].src, Png)

(* C6: in single-file mode with an explicit second argument the image is   *)
(* written to exactly that path and nothing to the derived default path;   *)
(* in directory mode a second argument does not change where images go.    *)
C6_ExplicitOutputPath ==
    /\ (SingleMode /\ Len(argv) > 2) =>
        /\ \A k \in 1..Len(saved) :
            /\ saved[k].dst = argv[3]
            /\ argv[3] # DefaultOutput(argv[2]) => saved[k].dst # DefaultOutput(argv[2])
            /\ argv[3] # WithSuffix(argv[2], Png) => saved[k].dst # WithSuffix(argv[2], Png)
        /\ pc = "done" =>
            /\ saved = <<[src |-> argv[2], dst |-> argv[3]]>>
            /\ stdout = <<[kind |-> "saved", arg |-> argv[3]]>>
    /\ (DirMode /\ Len(argv) > 2) =>
        \A k \in 1..Len(saved) :
            /\ saved[k].dst # argv[3]
            /\ saved[k].dst = DefaultOutput(saved[k].src)

C6_Witness ==
    /\ SingleMode
    /\ Len(argv) > 2
    /\ pc = "done"
    /\ saved = <<[src |-> FRoot, dst |-> OutArg]>>

(* C7: batch mode over a directory with no matching file reports that no   *)
(* files were found, attempts no file, writes no image, reports no error   *)
(* and no match count, and exits with a success status.                    *)
C7_NoMatchingFiles ==
    (DirMode /\ rglob(argv[2]) = {} /\ pc # "main") =>
        /\ pc = "done"
        /\ exit_code = <<0>>
        /\ stdout = <<[kind |-> "none", arg |-> argv[2]]>>
        /\ attempts = <<>>
        /\ saved = <<>>

C7_Witness ==
    /\ DirMode
    /\ argv[2] = Root
    /\ FNotes \in DOMAIN fs
    /\ pc = "done"
    /\ stdout = <<[kind |-> "none", arg |-> Root]>>

(* C8: main exits non-zero with usage text when no path is given, and      *)
(* non-zero with an error message when the path is neither a file nor a    *)
(* directory; in both cases nothing is parsed, rendered or written.        *)
C8_BadInvocationExits ==
    /\ (Len(argv) < 2 /\ pc # "main") =>
        /\ pc = "exit"
        /\ exit_code = <<1>>
        /\ stdout = <<[kind |-> "usage", arg |-> None]>>
        /\ attempts = <<>>
        /\ saved = <<>>
    /\ (Len(argv) >= 2 /\ ~isfile(argv[2]) /\ ~isdir(argv[2]) /\ pc # "main") =>
        /\ pc = "exit"
        /\ exit_code = <<1>>
        /\ stdout = <<[kind |-> "invalid", arg |-> argv[2]]>>
        /\ attempts = <<>>
        /\ saved = <<>>

C8_Witness ==
    /\ Len(argv) > 2
    /\ argv[2] = Missing
    /\ fs # <<>>
    /\ pc = "exit"
    /\ exit_code = <<1>>

(* C9: within one run the derived output paths of distinct input files are *)
(* distinct, and no derived output path is the path of an input file.      *)
C9_OutputsDistinctFromEachOtherAndInputs ==
    DefaultMode =>
        /\ \A a, b \in 1..Len(saved) :
              saved[a].src # saved[b].src => saved[a].dst # saved[b].dst
        /\ \A k \in 1..Len(saved) : saved[k].dst \notin DOMAIN fs

(* The batch half of C9 alone: two matching inputs of one batch run are    *)
(* never rendered to the same image path.                                 *)
C9_BatchOutputsDistinct ==
    DirMode =>
        \A a, b \in 1..Len(saved) :
            saved[a].src # saved[b].src => saved[a].dst # saved[b].dst

====
